---- MODULE Spec2Model ----
(***************************************************************************)
(* Model of the rpi-ans-machine controller loops (main.py: announce then   *)
(* record; happened_today.py: announce only), of the Recorder wrapper of   *)
(* main.py and of the playback registry of player.py.                      *)
(*                                                                         *)
(* Time is counted in whole seconds; one loop iteration advances the clock *)
(* by 0..MaxStep seconds (POLL_DELAY is 0.02 s, so many iterations fall in *)
(* the same second).                                                       *)
(***************************************************************************)
EXTENDS Integers, Sequences, FiniteSets, TLC

\* ----------------------------------------------------------------- bounds
MaxPlays == 2      \* playbacks the controller may start
MaxRecs  == 2      \* capture processes the Recorder may launch
MaxTime  == 3      \* last clock value
MaxStep  == 2      \* largest clock advance of one loop iteration

\* ------------------------------------------------------ program constants
MinDuration == 1   \* main.py:106  (time.time() - self.start_time) > 1

Levels   == {0, 1}
Variants == {"main", "happened_today"}
PlayIds  == 1..MaxPlays
RecIds   == 1..MaxRecs

ProcBackends   == {"omxplayer", "aplay", "system"}
StreamBackends == {"simpleaudio", "pygame"}

VARIABLES
    variant,            \* which script runs
    pc,                 \* "loop" inside while True, "exited" after finally
    state,              \* controller state
    last_level,         \* level of the previous iteration
    level,              \* level sampled by the latest iteration
    message_thread,     \* playback thread of the current cycle, 0 = None
    playback,           \* status of every playback thread / its audio
    PLAYBACK_HANDLES,   \* player.py registry
    recorder,           \* Recorder fields proc, file, start_time
    capture,            \* status of every capture subprocess
    now,                \* time.time()
    gpio_released,      \* GPIO.cleanup() has run
    last_step,          \* the branch taken by the latest step
    hangup_since_play,  \* a falling edge was sampled since the last play
    is_raspberry_pi,    \* what _is_raspberry_pi() answers on this machine
    result,             \* what the latest call of the player returned
    lock,               \* threads holding _PLAYBACK_LOCK, 0 = the caller
    stopper,            \* locals of the stop_audio() call in progress
    threads,            \* position of every thread started by play()
    keypad,             \* locals of keypad()
    dial                \* what the pins did and what keypad() reported

vars == <<variant, pc, state, last_level, level, message_thread, playback,
          PLAYBACK_HANDLES, recorder, capture, now, gpio_released,
          last_step, hangup_since_play, is_raspberry_pi, result,
          lock, stopper, threads, keypad, dial>>

ThreadVars == <<lock, stopper, threads>>
KeypadVars == <<keypad, dial>>

\* ------------------------------------------------------------ edge detector
falling_edge(last, lv) == last = 1 /\ lv = 0

\* reacts to the level instead of the edge
rising_edge_level(last, lv) == lv = 1

rising_edge(last, lv) == last = 0 /\ lv = 1

\* ------------------------------------------------------------------ threads
is_alive(pb, p) == pb[p] \in {"trying", "playing"}

Live(pb, p) == pb[p] = "playing"

NextPlay(pb) == Cardinality({p \in PlayIds : pb[p] # "unstarted"}) + 1

NextCapture(cap) == Cardinality({r \in RecIds : cap[r] # "unstarted"}) + 1

\* --------------------------------------------------- branch of a loop body
\* aborts only while the thread is still alive
main_branch_abort_if_alive(st, fe, re, mt, pb) ==
    IF st = "IDLE" /\ re THEN "play"
    ELSE IF st = "PLAY_MESSAGE"
         THEN IF fe /\ mt # 0 /\ is_alive(pb, mt) THEN "abort"
              ELSE IF mt # 0 /\ ~is_alive(pb, mt) THEN "record"
              ELSE "none"
    ELSE IF st = "RECORDING" /\ fe THEN "stop_recording"
    ELSE "none"

\* tests the completion before the edge
main_branch_record_first(st, fe, re, mt, pb) ==
    IF st = "IDLE" /\ re THEN "play"
    ELSE IF st = "PLAY_MESSAGE"
         THEN IF mt # 0 /\ ~is_alive(pb, mt) THEN "record"
              ELSE IF fe THEN "abort"
              ELSE "none"
    ELSE IF st = "RECORDING" /\ fe THEN "stop_recording"
    ELSE "none"

main_branch(st, fe, re, mt, pb) ==
    IF st = "IDLE" /\ re THEN "play"
    ELSE IF st = "PLAY_MESSAGE"
         THEN IF fe THEN "abort"
              ELSE IF mt # 0 /\ ~is_alive(pb, mt) THEN "record"
              ELSE "none"
    ELSE IF st = "RECORDING" /\ fe THEN "stop_recording"
    ELSE "none"

happened_today_branch(st, fe, re) ==
    IF st = "IDLE" /\ re THEN "play"
    ELSE IF st = "PLAY_MESSAGE"
         THEN IF fe THEN "abort" ELSE "none"
    ELSE "none"

Branch(v, st, last, lv, mt, pb) ==
    IF v = "main"
    THEN main_branch(st, falling_edge(last, lv), rising_edge(last, lv), mt, pb)
    ELSE happened_today_branch(st, falling_edge(last, lv), rising_edge(last, lv))

\* ------------------------------------------------------- player.py registry
Backends == ProcBackends \cup StreamBackends \cup {"playsound"}

register_playback(reg, backend, handle) ==
    Append(reg, [backend |-> backend, id |-> handle])

is_handle_active(h, pb) ==
    IF h.backend \in ProcBackends \cup StreamBackends
    THEN pb[h.id] = "playing"
    ELSE FALSE

RemoveHandle(reg, h) == SelectSeq(reg, LAMBDA x : x # h)

\* What a strategy that succeeded leaves in the registry: only the
\* non-blocking branch of a strategy registers, and playsound never does.
strategy_handles_ignores_blocking(reg, backend, handle, blocking) ==
    IF backend # "playsound"
    THEN register_playback(reg, backend, handle)
    ELSE reg

strategy_handles(reg, backend, handle, blocking) ==
    IF ~blocking /\ backend # "playsound"
    THEN register_playback(reg, backend, handle)
    ELSE reg

\* stop_audio(): every possible result of the loop over a copy of the
\* registry.  For a handle found active: terminate() followed by
\* wait(timeout=1) ends the process in time, or raises TimeoutExpired, which
\* the loop swallows; or the playback ended by itself after the liveness
\* check, and then terminate() / stop() do nothing, nothing is raised and
\* stopped_any is set all the same.
\* never drops a handle that is found, or has become, inactive
RECURSIVE StopLoop_keeps_inactive(_, _, _, _)
StopLoop_keeps_inactive(todo, reg, pb, stopped_any) ==
    IF todo = <<>>
    THEN {[handles |-> reg, playback |-> pb, stopped_any |-> stopped_any]}
    ELSE LET h    == Head(todo)
             rest == Tail(todo)
         IN  IF ~is_handle_active(h, pb)
             THEN StopLoop_keeps_inactive(rest, reg, pb, stopped_any)
             ELSE StopLoop_keeps_inactive(rest, RemoveHandle(reg, h),
                           [pb EXCEPT ![h.id] = "stopped"], TRUE)
                  \cup StopLoop_keeps_inactive(rest, reg, pb, stopped_any)
                  \cup StopLoop_keeps_inactive(rest, reg,
                                [pb EXCEPT ![h.id] = "finished"], TRUE)

RECURSIVE StopLoop(_, _, _, _)
StopLoop(todo, reg, pb, stopped_any) ==
    IF todo = <<>>
    THEN {[handles |-> reg, playback |-> pb, stopped_any |-> stopped_any]}
    ELSE LET h    == Head(todo)
             rest == Tail(todo)
         IN  IF ~is_handle_active(h, pb)
             THEN StopLoop(rest, RemoveHandle(reg, h), pb, stopped_any)
             ELSE IF h.backend \in ProcBackends
             THEN StopLoop(rest, RemoveHandle(reg, h),
                           [pb EXCEPT ![h.id] = "stopped"], TRUE)
                  \cup StopLoop(rest, reg, pb, stopped_any)
                  \cup StopLoop(rest, RemoveHandle(reg, h),
                                [pb EXCEPT ![h.id] = "finished"], TRUE)
             ELSE IF h.backend \in StreamBackends
             THEN StopLoop(rest, RemoveHandle(reg, h),
                           [pb EXCEPT ![h.id] = "stopped"], TRUE)
                  \cup StopLoop(rest, RemoveHandle(reg, h),
                                [pb EXCEPT ![h.id] = "finished"], TRUE)
             ELSE StopLoop(rest, reg, pb, stopped_any)

\* stopped_any starts as True
stop_audio_starts_true(reg, pb) == StopLoop(reg, reg, pb, TRUE)

stop_audio(reg, pb) == StopLoop(reg, reg, pb, FALSE)

\* ------------------------------------------------------ play_audio chain
\* the commands _play_with_system_command tries on linux
OTHER_CMDS == <<"ffplay", "paplay">>

\* everything whose availability / success the environment decides
Attempts == {"omxplayer", "aplay", "simpleaudio", "pygame", "playsound",
             "ffplay", "paplay"}

\* tries the Pi players on every machine
strategies_always_pi(is_pi) ==
    <<"omxplayer", "aplay", "simpleaudio", "pygame", "playsound", "system">>

\* the strategy list of one call, in order
strategies(is_pi) ==
    (IF is_pi THEN <<"omxplayer", "aplay">> ELSE <<>>)
        \o <<"simpleaudio", "pygame", "playsound", "system">>

\* _play_with_system_command: the first command that works ends the loop
play_with_system_command(ok) ==
    \E i \in 1..Len(OTHER_CMDS) : ok[OTHER_CMDS[i]]

\* what strategy(file_path, blocking) returns
strategy_ok(name, ok) ==
    IF name = "system" THEN play_with_system_command(ok) ELSE ok[name]

\* for strategy in strategies: if strategy(...): return True; return False
RECURSIVE PlayLoop(_, _, _, _)
PlayLoop(todo, ok, invoked, outcomes) ==
    IF todo = <<>>
    THEN [ret |-> "False", invoked |-> invoked, outcomes |-> outcomes,
          winner |-> "none"]
    ELSE IF strategy_ok(Head(todo), ok)
    THEN [ret |-> "True", invoked |-> Append(invoked, Head(todo)),
          outcomes |-> Append(outcomes, TRUE), winner |-> Head(todo)]
    ELSE PlayLoop(Tail(todo), ok, Append(invoked, Head(todo)),
                  Append(outcomes, FALSE))

\* skips the is_file() test
play_audio_no_check(found, is_pi, ok) ==
    PlayLoop(strategies(is_pi), ok, <<>>, <<>>)

play_audio(found, is_pi, ok) ==
    IF ~found
    THEN [ret |-> "FileNotFoundError", invoked |-> <<>>, outcomes |-> <<>>,
          winner |-> "none"]
    ELSE PlayLoop(strategies(is_pi), ok, <<>>, <<>>)

\* ------------------------------------------------------------------ Recorder
NoSession == [proc |-> 0, file |-> -1, start_time |-> -1]

\* terminate(), wait(timeout=2), kill() when the wait times out
TerminateWait_no_kill(timeout_expired) ==
    IF timeout_expired THEN "alive" ELSE "terminated"

TerminateWait(timeout_expired) ==
    IF timeout_expired THEN "killed" ELSE "terminated"

RecorderStartSession(cap, t) ==
    [proc |-> NextCapture(cap), file |-> t, start_time |-> t]

RecorderStartCapture(cap) == [cap EXCEPT ![NextCapture(cap)] = "alive"]

RecorderStopGuard(rec, cap, t) ==
    /\ rec.proc # 0
    /\ cap[rec.proc] = "alive"
    /\ (t - rec.start_time) > MinDuration

\* the capture maps Recorder.stop() may leave
RecorderStopCapture(rec, cap, t) ==
    IF RecorderStopGuard(rec, cap, t)
    THEN {[cap EXCEPT ![rec.proc] = TerminateWait(to)] : to \in BOOLEAN}
    ELSE {cap}

RecorderStopSession(rec) == NoSession

\* ------------------------------------------------------------ initial state
\* no call of the player has returned yet
\* stop_audio() not running
NoStop == [pc |-> "idle", todo |-> <<>>, stopped_any |-> FALSE,
           playing |-> {}]

\* a playback slot for which play() has not been called
NoThread == [pc |-> "none", blocking |-> FALSE, backend |-> "none"]

\* the locals of keypad() before the first iteration
KeypadLocals(multiple) ==
    [multiple |-> multiple, p_enabled |-> FALSE, p_keypad_state |-> 1,
     number |-> 0, full_number |-> <<>>, p_time |-> 0]

NoOutput == [printed |-> "none", digit |-> -1, called |-> FALSE,
             arg |-> -1, digits |-> <<>>]

NoDial == [prev_pin |-> 1, pulses |-> 0, edge_at_open |-> 0,
           last_active |-> 0, out |-> NoOutput]

NoResult == [op |-> "none", ret |-> "none", found |-> TRUE, blocking |-> FALSE,
             invoked |-> <<>>, outcomes |-> <<>>, winner |-> "none",
             started |-> 0]

thread_blocking == TRUE    \* kwargs={"blocking": True} of the playback thread

Init ==
    /\ variant \in Variants
    /\ pc = "loop"
    /\ state = "IDLE"
    /\ last_level \in Levels
    /\ level = last_level
    /\ message_thread = 0
    /\ playback = [p \in PlayIds |-> "unstarted"]
    /\ PLAYBACK_HANDLES = <<>>
    /\ recorder = NoSession
    /\ capture = [r \in RecIds |-> "unstarted"]
    /\ now = 0
    /\ gpio_released = FALSE
    /\ last_step = "init"
    /\ hangup_since_play = FALSE
    /\ is_raspberry_pi \in BOOLEAN
    /\ result = NoResult
    /\ lock = {}
    /\ stopper = NoStop
    /\ threads = [p \in PlayIds |-> NoThread]
    /\ keypad = KeypadLocals(TRUE)
    /\ dial = NoDial

\* --------------------------------------------------- one loop iteration
\* read_gpio(), the two edge flags, ..., last_level = level, sleep
Sampled(lv, d, branch) ==
    /\ pc = "loop"
    /\ now + d <= MaxTime
    /\ Branch(variant, state, last_level, lv, message_thread, playback) = branch
    /\ level' = lv
    /\ now' = now + d

\* IDLE and rising edge: _play_message / _play_random_event (blocking=False)
IdleRising ==
    \E lv \in Levels, d \in 0..MaxStep :
        /\ Sampled(lv, d, "play")
        /\ NextPlay(playback) <= MaxPlays
        /\ playback' = [playback EXCEPT ![NextPlay(playback)] = "trying"]
        /\ message_thread' = NextPlay(playback)
        /\ state' = "PLAY_MESSAGE"
        /\ last_level' = lv
        /\ hangup_since_play' = FALSE
        /\ last_step' = "IdleRising"
        /\ UNCHANGED <<is_raspberry_pi, result, ThreadVars, KeypadVars>>
        /\ UNCHANGED <<variant, pc, PLAYBACK_HANDLES, recorder, capture,
                       gpio_released>>

\* PLAY_MESSAGE and falling edge: stop_audio(), back to IDLE
PlayAbort ==
    \E lv \in Levels, d \in 0..MaxStep :
        /\ Sampled(lv, d, "abort")
        /\ \E out \in stop_audio(PLAYBACK_HANDLES, playback) :
              /\ PLAYBACK_HANDLES' = out.handles
              /\ playback' = out.playback
        /\ state' = "IDLE"
        /\ last_level' = lv
        /\ hangup_since_play' = TRUE
        /\ last_step' = "PlayAbort"
        /\ UNCHANGED <<is_raspberry_pi, result, ThreadVars, KeypadVars>>
        /\ UNCHANGED <<variant, pc, message_thread, recorder, capture,
                       gpio_released>>

\* PLAY_MESSAGE and the thread is no longer alive: recorder.start()
PlayFinished ==
    \E lv \in Levels, d \in 0..MaxStep :
        /\ Sampled(lv, d, "record")
        /\ NextCapture(capture) <= MaxRecs
        /\ recorder' = RecorderStartSession(capture, now + d)
        /\ capture' = RecorderStartCapture(capture)
        /\ state' = "RECORDING"
        /\ last_level' = lv
        /\ last_step' = "PlayFinished"
        /\ UNCHANGED <<is_raspberry_pi, result, ThreadVars, KeypadVars>>
        /\ UNCHANGED <<variant, pc, message_thread, playback,
                       PLAYBACK_HANDLES, gpio_released, hangup_since_play>>

\* RECORDING and falling edge: recorder.stop(), back to IDLE
RecordingHangup ==
    \E lv \in Levels, d \in 0..MaxStep :
        /\ Sampled(lv, d, "stop_recording")
        /\ capture' \in RecorderStopCapture(recorder, capture, now + d)
        /\ recorder' = RecorderStopSession(recorder)
        /\ state' = "IDLE"
        /\ last_level' = lv
        /\ hangup_since_play' = TRUE
        /\ last_step' = "RecordingHangup"
        /\ UNCHANGED <<is_raspberry_pi, result, ThreadVars, KeypadVars>>
        /\ UNCHANGED <<variant, pc, message_thread, playback,
                       PLAYBACK_HANDLES, gpio_released>>

\* no branch of the if/elif chain applies
NoTransition ==
    \E lv \in Levels, d \in 0..MaxStep :
        /\ Sampled(lv, d, "none")
        /\ last_level' = lv
        /\ hangup_since_play' =
              (hangup_since_play \/ falling_edge(last_level, lv))
        /\ last_step' = "NoTransition"
        /\ UNCHANGED <<is_raspberry_pi, result, ThreadVars, KeypadVars>>
        /\ UNCHANGED <<variant, pc, state, message_thread, playback,
                       PLAYBACK_HANDLES, recorder, capture, gpio_released>>

\* ------------------------------------------------------------ finally block
\* stop_audio(); recorder.stop() (main.py only); GPIO.cleanup()
Cleanup(t) ==
    /\ \E out \in stop_audio(PLAYBACK_HANDLES, playback) :
          /\ PLAYBACK_HANDLES' = out.handles
          /\ playback' = out.playback
    /\ IF variant = "main"
       THEN /\ capture' \in RecorderStopCapture(recorder, capture, t)
            /\ recorder' = RecorderStopSession(recorder)
       ELSE UNCHANGED <<capture, recorder>>
    /\ gpio_released' = TRUE
    /\ pc' = "exited"

\* KeyboardInterrupt, or read_gpio() raising, anywhere in the loop
Shutdown ==
    \E d \in 0..MaxStep :
        /\ pc = "loop"
        /\ now + d <= MaxTime
        /\ now' = now + d
        /\ Cleanup(now + d)
        /\ last_step' = "Shutdown"
        /\ UNCHANGED <<is_raspberry_pi, result, ThreadVars, KeypadVars>>
        /\ UNCHANGED <<variant, state, last_level, level, message_thread,
                       hangup_since_play>>

\* happened_today.py: random.choice([]) raises IndexError in the IDLE branch
IdleRisingNoEvents ==
    \E lv \in Levels, d \in 0..MaxStep :
        /\ variant = "happened_today"
        /\ Sampled(lv, d, "play")
        /\ Cleanup(now + d)
        /\ last_step' = "IdleRisingNoEvents"
        /\ UNCHANGED <<is_raspberry_pi, result, ThreadVars, KeypadVars>>
        /\ UNCHANGED <<variant, state, last_level, message_thread,
                       hangup_since_play>>

\* ------------------------------------------------- background units
\* the playback thread runs play_audio(file, blocking=True): a strategy
\* starts the audio, or every strategy fails / the file is missing
ThreadPlayAudio(p) ==
    /\ pc = "loop"
    /\ playback[p] = "trying"
    /\ \/ \E b \in Backends :
             /\ playback' = [playback EXCEPT ![p] = "playing"]
             /\ PLAYBACK_HANDLES' =
                   strategy_handles(PLAYBACK_HANDLES, b, p, thread_blocking)
       \/ /\ playback' = [playback EXCEPT ![p] = "failed"]
          /\ UNCHANGED PLAYBACK_HANDLES
    /\ last_step' = "ThreadPlayAudio"
    /\ UNCHANGED <<is_raspberry_pi, result, ThreadVars, KeypadVars>>
    /\ UNCHANGED <<variant, pc, state, last_level, level, message_thread,
                   recorder, capture, now, gpio_released, hangup_since_play>>

\* the audio plays to its end and the thread returns
PlaybackCompletes(p) ==
    /\ playback[p] = "playing"
    /\ playback' = [playback EXCEPT ![p] = "finished"]
    /\ last_step' = "PlaybackCompletes"
    /\ UNCHANGED <<is_raspberry_pi, result, ThreadVars, KeypadVars>>
    /\ UNCHANGED <<variant, pc, state, last_level, level, message_thread,
                   PLAYBACK_HANDLES, recorder, capture, now, gpio_released,
                   hangup_since_play>>

\* the capture process ends by itself (device error, disk full)
CaptureExits(r) ==
    /\ capture[r] = "alive"
    /\ capture' = [capture EXCEPT ![r] = "exited"]
    /\ last_step' = "CaptureExits"
    /\ UNCHANGED <<is_raspberry_pi, result, ThreadVars, KeypadVars>>
    /\ UNCHANGED <<variant, pc, state, last_level, level, message_thread,
                   playback, PLAYBACK_HANDLES, recorder, now, gpio_released,
                   hangup_since_play>>

Next ==
    \/ IdleRising
    \/ PlayAbort
    \/ PlayFinished
    \/ RecordingHangup
    \/ NoTransition
    \/ Shutdown
    \/ IdleRisingNoEvents
    \/ \E p \in PlayIds : ThreadPlayAudio(p)
    \/ \E p \in PlayIds : PlaybackCompletes(p)
    \/ \E r \in RecIds : CaptureExits(r)

Spec == Init /\ [][Next]_vars

TypeOK ==
    /\ state \in {"IDLE", "PLAY_MESSAGE", "RECORDING"}
    /\ message_thread \in 0..MaxPlays
    /\ now \in 0..MaxTime

\* ======================================================== properties
LoopSteps == {"IdleRising", "PlayAbort", "PlayFinished", "RecordingHangup",
              "NoTransition"}

LivePlaybacks == {p \in PlayIds : Live(playback, p)}

AliveCaptures == {r \in RecIds : capture[r] = "alive"}

ThreadEnded == message_thread # 0 /\ ~is_alive(playback, message_thread)

\* the rows of the transition table, read on one step
TableRow ==
    \/ /\ state = "IDLE" /\ state' = "PLAY_MESSAGE"
       /\ last_level = 0 /\ level' = 1
    \/ /\ state = "PLAY_MESSAGE" /\ state' = "IDLE"
       /\ last_level = 1 /\ level' = 0
    \/ /\ state = "PLAY_MESSAGE" /\ state' = "IDLE"
       /\ variant = "happened_today" /\ ThreadEnded
    \/ /\ state = "PLAY_MESSAGE" /\ state' = "RECORDING"
       /\ variant = "main" /\ ThreadEnded
    \/ /\ state = "RECORDING" /\ state' = "IDLE"
       /\ last_level = 1 /\ level' = 0

\* C1: the controller starts in IDLE and every change of state is a row of
\* the transition table (start edge, hang-up edge, completion).
C1_TransitionTable ==
    (state = "IDLE") /\ [][state' # state => TableRow]_vars

C1_Witness == last_step = "RecordingHangup" /\ state = "IDLE"

\* C2: after the hang-up branch of PLAY_MESSAGE has called stop_audio() and
\* the state is IDLE, the playback of that cycle is no longer live.
C2_AbortCancelsPlayback ==
    (last_step = "PlayAbort" /\ state = "IDLE")
        => ~Live(playback, message_thread)

\* C3: at most one playback started by the controller is live at any time.
C3_AtMostOnePlayback == Cardinality(LivePlaybacks) <= 1

\* C4: in an iteration of PLAY_MESSAGE that samples the hang-up edge while
\* the playback thread has already ended, the controller goes to IDLE and
\* Recorder.start() is not called.
C4_HangupPriority ==
    [][(/\ last_step' \in LoopSteps
        /\ state = "PLAY_MESSAGE"
        /\ ThreadEnded
        /\ falling_edge(last_level, level'))
       => (state' = "IDLE" /\ capture' = capture /\ recorder' = recorder)]_vars

C4_Witness ==
    /\ last_step = "PlayAbort"
    /\ variant = "main"
    /\ playback[message_thread] \in {"finished", "failed"}

\* C5: announce-only variant: once an iteration has run with the playback
\* finished and no hang-up edge since it started, the controller is in IDLE.
C5_AnnounceReturnsToIdle ==
    (/\ variant = "happened_today"
     /\ last_step \in LoopSteps
     /\ message_thread # 0
     /\ playback[message_thread] = "finished"
     /\ ~hangup_since_play)
        => state = "IDLE"

\* C6: when play_audio failed in every strategy, an iteration that runs
\* afterwards takes the controller out of PLAY_MESSAGE without any edge.
C6_ExhaustionLeavesPlaying ==
    (/\ last_step \in LoopSteps
     /\ message_thread # 0
     /\ playback[message_thread] = "failed"
     /\ ~hangup_since_play)
        => state # "PLAY_MESSAGE"

StopCalled ==
    \/ last_step' = "RecordingHangup"
    \/ last_step' = "Shutdown" /\ variant = "main"

CaptureRunning == recorder.proc # 0 /\ capture[recorder.proc] = "alive"

\* C8: Recorder.stop() called while the capture is alive and no more than
\* the minimum duration after start() leaves the process and the session
\* (proc, file, start_time) unchanged.
C8_GuardedStopIsNoOp ==
    [][(/\ last_step' = "RecordingHangup"
        /\ CaptureRunning
        /\ now' - recorder.start_time <= MinDuration)
       => (capture' = capture /\ recorder' = recorder)]_vars

\* C9: Recorder.stop() called more than the minimum duration after start()
\* with the capture alive leaves that process terminated or killed and the
\* session released.
C9_StopTerminates ==
    [][(/\ StopCalled
        /\ CaptureRunning
        /\ now' - recorder.start_time > MinDuration)
       => (/\ capture'[recorder.proc] \in {"terminated", "killed"}
           /\ recorder' = NoSession)]_vars

C9_Witness ==
    /\ last_step = "RecordingHangup"
    /\ recorder = NoSession
    /\ \E r \in RecIds : capture[r] = "killed"

\* C10: at most one capture process launched by the Recorder is alive.
C10_AtMostOneCapture == Cardinality(AliveCaptures) <= 1

\* C11: once the shutdown cleanup has run, no capture process launched by
\* the Recorder is still alive.
C11_TeardownStopsCapture == pc = "exited" => AliveCaptures = {}

\* ------------------------------------------------ main() from its first line
\* nothing of main() has run yet
InitMain ==
    /\ variant \in Variants
    /\ pc = "setup"
    /\ state = "unset"
    /\ last_level = -1
    /\ level = -1
    /\ message_thread = 0
    /\ playback = [p \in PlayIds |-> "unstarted"]
    /\ PLAYBACK_HANDLES = <<>>
    /\ recorder = NoSession
    /\ capture = [r \in RecIds |-> "unstarted"]
    /\ now = 0
    /\ gpio_released = FALSE
    /\ last_step = "init"
    /\ hangup_since_play = FALSE
    /\ is_raspberry_pi \in BOOLEAN
    /\ result = NoResult
    /\ lock = {}
    /\ stopper = NoStop
    /\ threads = [p \in PlayIds |-> NoThread]
    /\ keypad = KeypadLocals(TRUE)
    /\ dial = NoDial

\* greeting, setup_gpio(), last_level = read_gpio(), state = "IDLE"
Setup ==
    /\ pc = "setup"
    /\ \E lv \in Levels :
          /\ last_level' = lv
          /\ level' = lv
    /\ state' = "IDLE"
    /\ pc' = "loop"
    /\ last_step' = "Setup"
    /\ UNCHANGED <<ThreadVars, KeypadVars>>
    /\ UNCHANGED <<variant, message_thread, playback, PLAYBACK_HANDLES,
                   recorder, capture, now, gpio_released, hangup_since_play,
                   is_raspberry_pi, result>>

\* the first read_gpio() raises: these lines are before the try statement,
\* so the exception leaves main() without entering the finally block
SetupFails ==
    /\ pc = "setup"
    /\ pc' = "exited"
    /\ last_step' = "SetupFails"
    /\ UNCHANGED <<ThreadVars, KeypadVars>>
    /\ UNCHANGED <<variant, state, last_level, level, message_thread,
                   playback, PLAYBACK_HANDLES, recorder, capture, now,
                   gpio_released, hangup_since_play, is_raspberry_pi, result>>

NextMain ==
    \/ Setup
    \/ SetupFails
    \/ Next

SpecMain == InitMain /\ [][NextMain]_vars

\* C12: whichever way the controller ends (keyboard interrupt, a failed pin
\* read at any point, the first one included, any other exception), the
\* shutdown cleanup has run: stop_audio(), Recorder.stop(), GPIO.cleanup().
C12_EveryExitCleansUp == pc = "exited" => gpio_released

\* ------------------------------------------- a client of the two modules
\* a program that calls the two modules directly.  player.py (the registry)
\* and the Recorder (its three fields) share no state, so a run starts
\* playbacks or recordings, not both; stop_audio() is called in either.
\* The Recorder's methods return nothing, so result keeps the player's.
Clients == {"player_client", "recorder_client"}

\* the environments a call of play_audio is tried in: exactly one attempt
\* works, or every attempt from some position of the order on works, or none
AttemptOrder == <<"omxplayer", "aplay", "simpleaudio", "pygame", "playsound",
                  "ffplay", "paplay">>

OkInputs ==
    {[a \in Attempts |-> a = AttemptOrder[i]] : i \in 1..Len(AttemptOrder)}
    \cup {[a \in Attempts |->
             \E j \in i..Len(AttemptOrder) : a = AttemptOrder[j]] :
          i \in 1..(Len(AttemptOrder) + 1)}

InitClient ==
    /\ variant = "main"
    /\ pc \in Clients
    /\ state = "IDLE"
    /\ last_level = 1
    /\ level = 1
    /\ message_thread = 0
    /\ playback = [p \in PlayIds |-> "unstarted"]
    /\ PLAYBACK_HANDLES = <<>>
    /\ recorder = NoSession
    /\ capture = [r \in RecIds |-> "unstarted"]
    /\ now = 0
    /\ gpio_released = FALSE
    /\ last_step = "init"
    /\ hangup_since_play = FALSE
    /\ is_raspberry_pi \in BOOLEAN
    /\ result = NoResult
    /\ lock = {}
    /\ stopper = NoStop
    /\ threads = [p \in PlayIds |-> NoThread]
    /\ keypad = KeypadLocals(TRUE)
    /\ dial = NoDial

ControllerVars == <<variant, pc, state, last_level, level, message_thread,
                    gpio_released, hangup_since_play, is_raspberry_pi>>

\* play_audio(path, blocking=...): a blocking call returns when the audio
\* has ended, a non-blocking one leaves it playing
PlayAudioCall ==
    \E found \in BOOLEAN, blocking \in BOOLEAN, ok \in OkInputs :
        LET r == play_audio(found, is_raspberry_pi, ok)
            p == NextPlay(playback)
        IN  /\ pc = "player_client"
            /\ IF r.ret = "True"
               THEN /\ p <= MaxPlays
                    /\ playback' = [playback EXCEPT ![p] =
                          IF blocking THEN "finished" ELSE "playing"]
                    /\ PLAYBACK_HANDLES' =
                          strategy_handles(PLAYBACK_HANDLES, r.winner, p,
                                           blocking)
               ELSE UNCHANGED <<playback, PLAYBACK_HANDLES>>
            /\ result' = [op |-> "play_audio", ret |-> r.ret,
                          found |-> found, blocking |-> blocking,
                          invoked |-> r.invoked, outcomes |-> r.outcomes,
                          winner |-> r.winner,
                          started |-> IF r.ret = "True" THEN p ELSE 0]
            /\ last_step' = "PlayAudioCall"
            /\ UNCHANGED <<ThreadVars, KeypadVars>>
            /\ UNCHANGED <<ControllerVars, recorder, capture, now>>

StopAudioCall ==
    /\ pc \in Clients
    /\ \E out \in stop_audio(PLAYBACK_HANDLES, playback) :
          /\ PLAYBACK_HANDLES' = out.handles
          /\ playback' = out.playback
          /\ result' = [NoResult EXCEPT
                !.op = "stop_audio",
                !.ret = IF out.stopped_any THEN "True" ELSE "False"]
    /\ last_step' = "StopAudioCall"
    /\ UNCHANGED <<ThreadVars, KeypadVars>>
    /\ UNCHANGED <<ControllerVars, recorder, capture, now>>

RecorderStartCall ==
    \E d \in 0..MaxStep :
        /\ pc = "recorder_client"
        /\ now + d <= MaxTime
        /\ now' = now + d
        /\ NextCapture(capture) <= MaxRecs
        /\ recorder' = RecorderStartSession(capture, now + d)
        /\ capture' = RecorderStartCapture(capture)
        /\ last_step' = "RecorderStartCall"
        /\ UNCHANGED <<ThreadVars, KeypadVars>>
        /\ UNCHANGED <<ControllerVars, playback, PLAYBACK_HANDLES, result>>

RecorderStopCall ==
    \E d \in 0..MaxStep :
        /\ pc = "recorder_client"
        /\ now + d <= MaxTime
        /\ now' = now + d
        /\ capture' \in RecorderStopCapture(recorder, capture, now + d)
        /\ recorder' = RecorderStopSession(recorder)
        /\ last_step' = "RecorderStopCall"
        /\ UNCHANGED <<ThreadVars, KeypadVars>>
        /\ UNCHANGED <<ControllerVars, playback, PLAYBACK_HANDLES, result>>

NextClient ==
    \/ PlayAudioCall
    \/ StopAudioCall
    \/ RecorderStartCall
    \/ RecorderStopCall
    \/ \E p \in PlayIds : PlaybackCompletes(p)
    \/ \E r \in RecIds : CaptureExits(r)

SpecClient == InitClient /\ [][NextClient]_vars

\* ------------------------------------------------ properties of player.py
HandleIndex == 1..Len(PLAYBACK_HANDLES)

InRegistry(reg, h) == \E j \in 1..Len(reg) : reg[j] = h

\* C13: when stop_audio() returns, no handle that was in the registry at the
\* call is still playing and none of them is still in the registry.
C13_StopAudioStopsAll ==
    [][last_step' = "StopAudioCall"
       => \A i \in HandleIndex :
             /\ playback'[PLAYBACK_HANDLES[i].id] # "playing"
             /\ ~InRegistry(PLAYBACK_HANDLES', PLAYBACK_HANDLES[i])]_vars

\* C14: stop_audio() returns True exactly when this call stopped at least
\* one playback that was playing.
C14_ReturnsTrueIffStopped ==
    [][last_step' = "StopAudioCall"
       => ((result'.ret = "True")
             <=> (\E p \in PlayIds :
                     playback[p] = "playing" /\ playback'[p] = "stopped"))]_vars

\* C15: stop_audio() returns normally whatever a handle does meanwhile, a
\* handle whose playback ended by itself during the call is removed, and
\* every handle left in the registry is one that was still active.
C15_SafeAgainstNaturalFinish ==
    [][last_step' = "StopAudioCall"
       => /\ result'.ret \in {"True", "False"}
          /\ \A i \in HandleIndex :
                playback'[PLAYBACK_HANDLES[i].id] # "playing"
                   => ~InRegistry(PLAYBACK_HANDLES', PLAYBACK_HANDLES[i])
          /\ \A j \in 1..Len(PLAYBACK_HANDLES') :
                /\ InRegistry(PLAYBACK_HANDLES, PLAYBACK_HANDLES'[j])
                /\ playback'[PLAYBACK_HANDLES'[j].id] = "playing"]_vars

C15_Witness ==
    /\ last_step = "StopAudioCall"
    /\ result.ret = "True"
    /\ PLAYBACK_HANDLES = <<>>
    /\ \E p \in PlayIds : playback[p] = "finished"
    /\ \A p \in PlayIds : playback[p] # "stopped"

\* C16: with nothing active both stops are no-ops: stop_audio() on an empty
\* registry returns False and leaves it empty, Recorder.stop() without a
\* session leaves the Recorder without a session and touches no process.
C16_IdempotentWhenIdle ==
    [][/\ (last_step' = "StopAudioCall" /\ PLAYBACK_HANDLES = <<>>)
          => (/\ result'.ret = "False"
              /\ PLAYBACK_HANDLES' = <<>>
              /\ playback' = playback)
       /\ (last_step' = "RecorderStopCall" /\ recorder = NoSession)
          => (/\ recorder' = NoSession
              /\ capture' = capture
              /\ result' = result)]_vars

C16_Witness ==
    /\ last_step = "RecorderStopCall"
    /\ recorder = NoSession
    /\ \A r \in RecIds : capture[r] = "unstarted"
    /\ result.op = "stop_audio"
    /\ result.ret = "False"
    /\ \A p \in PlayIds : playback[p] = "unstarted"

\* the order the documentation of play_audio gives
ExpectedOrder ==
    IF is_raspberry_pi
    THEN <<"omxplayer", "aplay", "simpleaudio", "pygame", "playsound",
           "system">>
    ELSE <<"simpleaudio", "pygame", "playsound", "system">>

\* C17: on an existing file the strategies invoked are a prefix of the fixed
\* order, only the last one invoked can have succeeded, the call returns
\* True exactly when it did, and False only after the whole list failed.
C17_FallbackChain ==
    (result.op = "play_audio" /\ result.found)
        => LET n == Len(result.invoked)
           IN  /\ result.ret \in {"True", "False"}
               /\ Len(result.outcomes) = n
               /\ n <= Len(ExpectedOrder)
               /\ \A i \in 1..n : result.invoked[i] = ExpectedOrder[i]
               /\ \A i \in 1..n : (i < n) => ~result.outcomes[i]
               /\ (result.ret = "True") <=> (n > 0 /\ result.outcomes[n])
               /\ (result.ret = "False") => n = Len(ExpectedOrder)

C17_Witness ==
    /\ result.op = "play_audio"
    /\ result.ret = "True"
    /\ ~is_raspberry_pi
    /\ result.invoked = <<"simpleaudio", "pygame", "playsound", "system">>

\* the call appended exactly one handle, the one of the playback it started
AddedOneHandle ==
    /\ Len(PLAYBACK_HANDLES') = Len(PLAYBACK_HANDLES) + 1
    /\ SubSeq(PLAYBACK_HANDLES', 1, Len(PLAYBACK_HANDLES)) = PLAYBACK_HANDLES
    /\ PLAYBACK_HANDLES'[Len(PLAYBACK_HANDLES')].id = result'.started
    /\ PLAYBACK_HANDLES'[Len(PLAYBACK_HANDLES')].backend = result'.winner

\* C18 as stated: a non-blocking call that returns True has added exactly
\* one handle whichever strategy succeeded; any other call adds none.
C18_RegistersOnSuccess ==
    [][last_step' = "PlayAudioCall"
       => IF result'.ret = "True" /\ ~result'.blocking
          THEN AddedOneHandle
          ELSE PLAYBACK_HANDLES' = PLAYBACK_HANDLES]_vars

\* C18 amended: a non-blocking call that returns True through a strategy
\* other than playsound has added exactly one handle; through playsound, or
\* blocking, or returning False, it adds none.
C18_RegistersUnlessPlaysound ==
    [][last_step' = "PlayAudioCall"
       => IF /\ result'.ret = "True"
             /\ ~result'.blocking
             /\ result'.winner # "playsound"
          THEN AddedOneHandle
          ELSE PLAYBACK_HANDLES' = PLAYBACK_HANDLES]_vars

C18_Witness ==
    /\ last_step = "PlayAudioCall"
    /\ result.ret = "True"
    /\ ~result.blocking
    /\ result.winner = "system"
    /\ Len(PLAYBACK_HANDLES) = 2
    /\ PLAYBACK_HANDLES[2] = [backend |-> "system", id |-> result.started]

\* C19: every handle in the registry is a playback that is still playing.
C19_RegistryOnlyInFlight ==
    \A i \in HandleIndex : playback[PLAYBACK_HANDLES[i].id] = "playing"

\* C20: play_audio on a path that is not a file raises FileNotFoundError,
\* invokes no strategy, starts nothing and leaves the registry unchanged.
C20_MissingFileChangesNothing ==
    [][(last_step' = "PlayAudioCall" /\ ~result'.found)
       => (/\ result'.ret = "FileNotFoundError"
           /\ result'.invoked = <<>>
           /\ result'.started = 0
           /\ PLAYBACK_HANDLES' = PLAYBACK_HANDLES
           /\ playback' = playback)]_vars

C20_Witness ==
    /\ last_step = "PlayAudioCall"
    /\ ~result.found
    /\ result.ret = "FileNotFoundError"
    /\ Len(PLAYBACK_HANDLES) = 1

\* C21: Recorder.start() called while a session is active fails and leaves
\* the session and the capture processes as they were.
C21_StartWhileRecordingFails ==
    [][(last_step' = "RecorderStartCall" /\ recorder.proc # 0)
       => (recorder' = recorder /\ capture' = capture)]_vars

\* C22: a failing play call never ends the controller: the loop is left only
\* by a pin read failure or a shutdown signal.
C22_PlayFailureAbsorbed ==
    [][(pc = "loop" /\ pc' = "exited") => last_step' = "Shutdown"]_vars

\* C23: main.py has the polarity its doc comment states: the cycle starts on
\* HIGH -> LOW, playback is aborted and recording is stopped on LOW -> HIGH,
\* and recording starts while the pin is still LOW.
C23_DocumentedPolarity ==
    [][variant = "main"
       => /\ (state = "IDLE" /\ state' = "PLAY_MESSAGE")
                => (last_level = 1 /\ level' = 0)
          /\ (state = "PLAY_MESSAGE" /\ state' = "IDLE")
                => (last_level = 0 /\ level' = 1)
          /\ (state = "PLAY_MESSAGE" /\ state' = "RECORDING")
                => level' = 0
          /\ (state = "RECORDING" /\ state' = "IDLE")
                => (last_level = 0 /\ level' = 1)]_vars

EdgeSteps == {"IdleRising", "PlayAbort", "RecordingHangup"}

\* C25: every iteration stores the level it sampled in last_level, so a
\* change between two samples is an edge in exactly one iteration, never
\* rising and falling at once, and an iteration that samples no change takes
\* no edge-triggered branch, whatever edges were ignored before.
C25_EdgesOnceInOrder ==
    [][last_step' \in LoopSteps
       => /\ last_level' = level'
          /\ ~(rising_edge(last_level, level')
                 /\ falling_edge(last_level, level'))
          /\ (last_step' \in EdgeSteps) => (level' # last_level)
          /\ (level' # last_level)
                => (rising_edge(last_level, level')
                      \/ falling_edge(last_level, level'))]_vars

\* a falling edge was sampled in IDLE before any play, nothing followed
C25_Witness ==
    /\ last_step = "NoTransition"
    /\ state = "IDLE"
    /\ message_thread = 0
    /\ hangup_since_play
    /\ last_level = 0
    /\ level = 0

play_default_blocking == TRUE

\* the lock is handed out although it is held
can_acquire_always(l) == TRUE

can_acquire(l) == l = {}

InitThreads ==
    /\ variant = "main"
    /\ pc = "thread_client"
    /\ state = "IDLE"
    /\ last_level = 1
    /\ level = 1
    /\ message_thread = 0
    /\ playback = [p \in PlayIds |-> "unstarted"]
    /\ PLAYBACK_HANDLES = <<>>
    /\ recorder = NoSession
    /\ capture = [r \in RecIds |-> "unstarted"]
    /\ now = 0
    /\ gpio_released = FALSE
    /\ last_step = "init"
    /\ hangup_since_play = FALSE
    /\ is_raspberry_pi \in BOOLEAN
    /\ result = NoResult
    /\ lock = {}
    /\ stopper = NoStop
    /\ threads = [p \in PlayIds |-> NoThread]
    /\ keypad = KeypadLocals(TRUE)
    /\ dial = NoDial

ThreadFrame == <<variant, pc, state, last_level, level, gpio_released,
                 hangup_since_play, is_raspberry_pi, recorder, capture,
                 now, KeypadVars>>

\* the machines a play() thread is run on: one backend works (a process,
\* a stream, or playsound, which registers nothing) or none does
ThreadOkInputs ==
    {[a \in Attempts |-> a = b] : b \in {"aplay", "simpleaudio",
                                         "playsound", "none"}}

\* th = play(path) or th = play(path, blocking=False); the client is one
\* thread, so it is not inside stop() when it calls play()
PlayCall ==
    \E blocking \in {play_default_blocking, FALSE} :
        LET p == NextPlay(playback)
        IN  /\ pc = "thread_client"
            /\ stopper.pc = "idle"
            /\ p <= MaxPlays
            /\ playback' = [playback EXCEPT ![p] = "trying"]
            /\ threads' = [threads EXCEPT ![p] =
                  [pc |-> "started", blocking |-> blocking,
                   backend |-> "none"]]
            /\ message_thread' = p
            /\ last_step' = "PlayCall"
            /\ UNCHANGED <<ThreadFrame, PLAYBACK_HANDLES, lock, stopper,
                           result>>

\* _PlayThread.run up to the launch of the audio: play_audio walks the
\* strategies; the winner has started the audio and not yet registered it
ThreadLaunch(p) ==
    \E found \in BOOLEAN, ok \in ThreadOkInputs :
        LET r == play_audio(found, is_raspberry_pi, ok)
            registers ==
                strategy_handles(<<>>, r.winner, p, threads[p].blocking)
                    # <<>>
        IN  /\ pc = "thread_client"
            /\ threads[p].pc = "started"
            /\ IF r.ret = "True"
               THEN /\ playback' = [playback EXCEPT ![p] = "playing"]
                    /\ threads' = [threads EXCEPT ![p] =
                          [@ EXCEPT !.pc = IF registers THEN "launched"
                                           ELSE "done",
                                    !.backend = r.winner]]
               ELSE /\ playback' = [playback EXCEPT ![p] = "failed"]
                    /\ threads' = [threads EXCEPT ![p].pc = "done"]
            /\ last_step' = "ThreadLaunch"
            /\ UNCHANGED <<ThreadFrame, PLAYBACK_HANDLES, lock, stopper,
                           message_thread, result>>

\* _register_playback: with _PLAYBACK_LOCK
RegisterAcquire(p) ==
    /\ pc = "thread_client"
    /\ threads[p].pc = "launched"
    /\ can_acquire(lock)
    /\ lock' = lock \cup {p}
    /\ threads' = [threads EXCEPT ![p].pc = "locked"]
    /\ last_step' = "RegisterAcquire"
    /\ UNCHANGED <<ThreadFrame, PLAYBACK_HANDLES, playback, stopper,
                   message_thread, result>>

\* _PLAYBACK_HANDLES.append(...)
RegisterAppend(p) ==
    /\ pc = "thread_client"
    /\ threads[p].pc = "locked"
    /\ PLAYBACK_HANDLES' =
          register_playback(PLAYBACK_HANDLES, threads[p].backend, p)
    /\ threads' = [threads EXCEPT ![p].pc = "appended"]
    /\ last_step' = "RegisterAppend"
    /\ UNCHANGED <<ThreadFrame, playback, lock, stopper, message_thread,
                   result>>

\* leaving the with block
RegisterRelease(p) ==
    /\ pc = "thread_client"
    /\ threads[p].pc = "appended"
    /\ lock' = lock \ {p}
    /\ threads' = [threads EXCEPT ![p].pc = "done"]
    /\ last_step' = "RegisterRelease"
    /\ UNCHANGED <<ThreadFrame, PLAYBACK_HANDLES, playback, stopper,
                   message_thread, result>>

\* stop(): with _PLAYBACK_LOCK, then for handle in list(_PLAYBACK_HANDLES)
StopAcquire ==
    /\ pc = "thread_client"
    /\ stopper.pc = "idle"
    /\ can_acquire(lock)
    /\ lock' = lock \cup {0}
    /\ stopper' = [pc |-> "loop", todo |-> PLAYBACK_HANDLES,
                   stopped_any |-> FALSE,
                   playing |-> {p \in PlayIds : playback[p] = "playing"}]
    /\ last_step' = "StopAcquire"
    /\ UNCHANGED <<ThreadFrame, PLAYBACK_HANDLES, playback, threads,
                   message_thread, result>>

\* one iteration of the for loop
StopStep ==
    /\ pc = "thread_client"
    /\ stopper.pc = "loop"
    /\ stopper.todo # <<>>
    /\ \E out \in StopLoop(<<Head(stopper.todo)>>, PLAYBACK_HANDLES,
                           playback, stopper.stopped_any) :
          /\ PLAYBACK_HANDLES' = out.handles
          /\ playback' = out.playback
          /\ stopper' = [stopper EXCEPT !.todo = Tail(@),
                            !.stopped_any = out.stopped_any]
    /\ last_step' = "StopStep"
    /\ UNCHANGED <<ThreadFrame, lock, threads, message_thread, result>>

\* the loop is over: the lock is released and stopped_any returned
StopRelease ==
    /\ pc = "thread_client"
    /\ stopper.pc = "loop"
    /\ stopper.todo = <<>>
    /\ lock' = lock \ {0}
    /\ stopper' = NoStop
    /\ result' = [NoResult EXCEPT
          !.op = "stop_audio",
          !.ret = IF stopper.stopped_any THEN "True" ELSE "False"]
    /\ last_step' = "StopRelease"
    /\ UNCHANGED <<ThreadFrame, PLAYBACK_HANDLES, playback, threads,
                   message_thread>>

HolderStep ==
    \/ StopStep
    \/ StopRelease
    \/ \E p \in PlayIds : RegisterAppend(p) \/ RegisterRelease(p)

NextThreads ==
    \/ PlayCall
    \/ StopAcquire
    \/ StopStep
    \/ StopRelease
    \/ \E p \in PlayIds : ThreadLaunch(p)
    \/ \E p \in PlayIds : RegisterAcquire(p)
    \/ \E p \in PlayIds : RegisterAppend(p)
    \/ \E p \in PlayIds : RegisterRelease(p)
    \/ \E p \in PlayIds : PlaybackCompletes(p)

SpecThreads == InitThreads /\ [][NextThreads]_vars

\* C24: a playback started by th = play(path) with the default arguments,
\* playing when stop() is called, is no longer playing when stop() returns.
C24_StopStopsDefaultPlay ==
    [][(/\ last_step' = "StopRelease"
        /\ message_thread # 0
        /\ message_thread \in stopper.playing
        /\ threads[message_thread].blocking = play_default_blocking)
       => playback'[message_thread] # "playing"]_vars

\* C26: the registry changes only in a step of the one thread that holds
\* _PLAYBACK_LOCK, no append happens while stop_audio() iterates, and the
\* holder of the lock can always take its next step.
C26_RegistryMutex ==
    /\ [](/\ Cardinality(lock) <= 1
          /\ lock # {} => ENABLED HolderStep)
    /\ [][/\ PLAYBACK_HANDLES' # PLAYBACK_HANDLES
             => \/ /\ last_step' = "StopStep"
                   /\ lock = {0}
                \/ /\ last_step' = "RegisterAppend"
                   /\ \E p \in PlayIds :
                         /\ lock = {p}
                         /\ threads[p].pc = "locked"
                         /\ threads'[p].pc = "appended"
          /\ stopper.pc = "loop" => last_step' # "RegisterAppend"]_vars

\* a thread has launched its audio and waits for the lock while
\* stop_audio() iterates over a registered handle
C26_Witness ==
    /\ stopper.pc = "loop"
    /\ stopper.todo # <<>>
    /\ lock = {0}
    /\ \E p \in PlayIds : threads[p].pc = "launched"

\* C27: when stop_audio() returns, no audio that was launched and is not
\* registered yet is left playing.
C27_NoEscapeThroughGap ==
    last_step = "StopRelease"
       => \A p \in PlayIds :
             threads[p].pc = "launched" => playback[p] # "playing"

\* ------------------------------------------------------------- keypad.py
MaxPulses == 10
MaxDigits == 2

full_number_timeout == 1

\* str(n) as the sequence of its decimal digits
RECURSIVE str(_)
str(n) == IF n < 10 THEN <<n>> ELSE Append(str(n \div 10), n % 10)

\* int(s) of a sequence of decimal digits
RECURSIVE int(_)
int(s) ==
    IF s = <<>> THEN 0
    ELSE 10 * int(SubSeq(s, 1, Len(s) - 1)) + s[Len(s)]

\* the enable pin is active: the window opens or goes on, pulses are counted
window_tick(k, keypad_state, t) ==
    LET number0 == IF ~k.p_enabled THEN 0 ELSE k.number
        number1 == IF keypad_state # k.p_keypad_state /\ keypad_state = 1
                   THEN number0 + 1 ELSE number0
    IN  [locals |-> [k EXCEPT !.p_time = t, !.number = number1,
                              !.p_keypad_state = keypad_state],
         out    |-> NoOutput]

\* the enable pin is inactive: the digit is reported when the window closes
idle_tick(k) ==
    IF ~k.p_enabled
    THEN [locals |-> k, out |-> NoOutput]
    ELSE IF k.number = 0
    THEN [locals |-> k, out |-> [NoOutput EXCEPT !.printed = "no_number"]]
    ELSE LET number == IF k.number > 9 THEN 0 ELSE k.number
         IN  [locals |-> [k EXCEPT !.number = number,
                             !.full_number =
                                IF k.multiple THEN @ \o str(number) ELSE @],
              out    |-> [NoOutput EXCEPT !.printed = "number",
                             !.digit = number,
                             !.called = ~k.multiple,
                             !.arg = IF k.multiple THEN -1 ELSE number]]

\* the end of the iteration: p_enabled, then the full number in multiple
\* mode once the timeout has passed
flush(r, enabled, t) ==
    LET k == [r.locals EXCEPT !.p_enabled = enabled]
    IN  IF /\ k.multiple
           /\ t - k.p_time > full_number_timeout
           /\ Len(k.full_number) > 0
        THEN [locals |-> [k EXCEPT !.full_number = <<>>],
              out    |-> [r.out EXCEPT !.called = TRUE,
                             !.arg = int(k.full_number),
                             !.digits = k.full_number]]
        ELSE [locals |-> k, out |-> r.out]

\* one iteration of the while loop of keypad()
keypad_iteration(k, enabled, keypad_state, t) ==
    flush(IF enabled THEN window_tick(k, keypad_state, t) ELSE idle_tick(k),
          enabled, t)

InitKeypad ==
    /\ variant = "main"
    /\ pc = "keypad"
    /\ state = "IDLE"
    /\ last_level = 1
    /\ level = 1
    /\ message_thread = 0
    /\ playback = [p \in PlayIds |-> "unstarted"]
    /\ PLAYBACK_HANDLES = <<>>
    /\ recorder = NoSession
    /\ capture = [r \in RecIds |-> "unstarted"]
    /\ now = 0
    /\ gpio_released = FALSE
    /\ last_step = "init"
    /\ hangup_since_play = FALSE
    /\ is_raspberry_pi = TRUE
    /\ result = NoResult
    /\ lock = {}
    /\ stopper = NoStop
    /\ threads = [p \in PlayIds |-> NoThread]
    /\ \E multiple \in BOOLEAN : keypad = KeypadLocals(multiple)
    /\ \E pin \in Levels : dial = [NoDial EXCEPT !.prev_pin = pin]

KeypadFrame == <<variant, state, last_level, level, message_thread, playback,
                 PLAYBACK_HANDLES, recorder, capture, hangup_since_play,
                 is_raspberry_pi, result, ThreadVars>>

\* what the pins did, seen from outside: Low -> High changes of the numpad
\* pin between two polls of one window, and across the opening of a window
Observe(enabled, pin, t, out) ==
    LET rose == IF dial.prev_pin = 0 /\ pin = 1 THEN 1 ELSE 0
    IN  [prev_pin     |-> pin,
         pulses       |-> IF ~enabled THEN dial.pulses
                          ELSE IF keypad.p_enabled THEN dial.pulses + rose
                          ELSE 0,
         edge_at_open |-> IF ~enabled \/ keypad.p_enabled
                          THEN dial.edge_at_open ELSE rose,
         last_active  |-> IF enabled THEN t ELSE dial.last_active,
         out          |-> out]

Iteration(enabled, pin, d) ==
    LET t == now + d
        r == keypad_iteration(keypad, enabled, pin, t)
    IN  /\ pc = "keypad"
        /\ t <= MaxTime
        /\ r.locals.number <= MaxPulses
        /\ Len(r.locals.full_number) <= MaxDigits
        /\ now' = t
        /\ keypad' = r.locals
        /\ dial' = Observe(enabled, pin, t, r.out)
        /\ UNCHANGED <<KeypadFrame, pc, gpio_released>>

\* an iteration with the enable pin active
KeypadWindow ==
    /\ \E pin \in Levels, d \in 0..MaxStep : Iteration(TRUE, pin, d)
    /\ last_step' = "KeypadWindow"

\* the first iteration after the enable pin went inactive
KeypadWindowCloses ==
    /\ keypad.p_enabled
    /\ \E pin \in Levels, d \in 0..MaxStep : Iteration(FALSE, pin, d)
    /\ last_step' = "KeypadWindowCloses"

\* an iteration with the enable pin still inactive
KeypadIdle ==
    /\ ~keypad.p_enabled
    /\ \E pin \in Levels, d \in 0..MaxStep : Iteration(FALSE, pin, d)
    /\ last_step' = "KeypadIdle"

\* KeyboardInterrupt: the finally block releases the pins
KeypadInterrupt ==
    /\ pc = "keypad"
    /\ pc' = "exited"
    /\ gpio_released' = TRUE
    /\ last_step' = "KeypadInterrupt"
    /\ UNCHANGED <<KeypadFrame, KeypadVars, now>>

NextKeypad ==
    \/ KeypadWindow
    \/ KeypadWindowCloses
    \/ KeypadIdle
    \/ KeypadInterrupt

SpecKeypad == InitKeypad /\ [][NextKeypad]_vars

PulseReport(c) ==
    IF c = 0
    THEN /\ dial.out.printed = "no_number"
         /\ dial.out.digit = -1
         /\ ~keypad.multiple => ~dial.out.called
    ELSE /\ dial.out.printed = "number"
         /\ dial.out.digit = (IF c > 9 THEN 0 ELSE c)

\* C29: when a window closes the report is the number of Low -> High
\* changes of the numpad pin inside the window (a change across the opening
\* poll may or may not count), more than 9 as 0 and none as no number.
C29_PulseCount ==
    last_step = "KeypadWindowCloses"
       => \/ PulseReport(dial.pulses)
          \/ PulseReport(dial.pulses + dial.edge_at_open)

\* C30: in multiple mode the callback gets the dialled digits exactly,
\* leading zeros included, only after the enable pin has been inactive for
\* longer than full_number_timeout, and the buffer is empty afterwards.
C30_FullNumberExact ==
    (keypad.multiple /\ dial.out.called)
       => /\ str(dial.out.arg) = dial.out.digits
          /\ now - dial.last_active > full_number_timeout
          /\ keypad.full_number = <<>>

====
